---- MODULE Spec2Model ----
(***************************************************************************)
(* The OLED display service of pm_auto (services/oled_service.py): the     *)
(* OLEDService object, its worker thread running loop(), and the threads   *)
(* that call set_button, update_config, show_shutdown_screen, start and    *)
(* stop; and the letterbox step of preprocess_video.py, which prepares the *)
(* frames the service shows as its logo.                                   *)
(*                                                                         *)
(* Time is counted in poll periods: one unit is the 0.1 s of the loop's    *)
(* time.sleep(0.1).  The clock advances while the worker sleeps; a sleep   *)
(* lasts at least one period.                                              *)
(***************************************************************************)
EXTENDS Integers, Sequences, FiniteSets, TLC

(***************************************************************************)
(* Bounds of the model.                                                    *)
(***************************************************************************)
\* time.time() at construction; wake_start_time starts at 0, far before it
Epoch == 6
\* ticks are explored until the clock reaches Epoch + Horizon
Horizon == 13
\* the longest a time.sleep(0.1) is taken to last, in poll periods
MaxStep == 2
\* calls the other threads make in one run (set_button, update_config,
\* show_shutdown_screen, start, stop)
MaxCalls == 3
\* threads that call start() and stop() at the same time, and Thread
\* objects they may create in one run
NumCallers == 2
MaxThreads == 3
\* the widest and the tallest frame of a video given to preprocess_video.py
MaxFrameWidth == 130
MaxFrameHeight == 66
\* the positive oled_sleep_timeout the callers configure
SomeTimeout == 2
\* The durations of the cycle, in poll periods.  The source's values are
\* 60 s, 3 s, 5 s, 8 s and INTERVAL = 1 s (600, 30, 50, 80 and 10 poll
\* periods); the model keeps the code's comparisons and explores them for
\* shorter holds of the same shape (each a whole number of periods, each
\* longer than the refresh interval).
cycle_interval == 3
greeting_duration == 2
server_info_duration == 3
info_duration == 4
INTERVAL == 1

(***************************************************************************)
(* Program constants.                                                      *)
(***************************************************************************)
\* the period of time.sleep(0.1), and the 0.1 of "time_in_state < 0.1"
POLL == 1
\* preprocess_video.py: the size of the panel
OLED_WIDTH == 128
OLED_HEIGHT == 64
\* OLEDPage members that current_page takes
POWER_OFF == "POWER_OFF"
LOGO == "LOGO"
\* info_pages of loop(), by the page each renderer draws
info_pages == <<"performance", "ips", "disk">>

\* what the panel can show: the pages the service draws, a frame of the
\* asset, the blank buffer, the powered-down panel, the content at power-up
BLANK == "blank"
OFF == "off"
POWERUP == "powerup"
PAGE_POWER_OFF == "power_off"
PAGE_GREETING == "greeting"
PAGE_SERVER_INFO == "server_info"
PAGE_TEXT_LOGO == "text_logo"
NOFRAME == "None"
\* no page presented
NOPAGE == "nothing"
\* a render call of the step raised an exception
FAULT == "fault"

(***************************************************************************)
(* Inputs.                                                                 *)
(***************************************************************************)
\* the frames file found at construction: none, one numpy cannot load (or
\* without a 'frames' array), or one whose 'frames' array holds these frames
Assets ==
    { [kind |-> "missing", frames |-> <<>>],
      [kind |-> "malformed", frames |-> <<>>],
      [kind |-> "ok", frames |-> <<>>],
      [kind |-> "ok", frames |-> <<"F0">>],
      [kind |-> "ok", frames |-> <<"F0", "F1">>] }

\* button states set_button is called with (False is the empty slot)
NOBUTTON == "False"
ButtonEvents == {"single_click", "double_click", "long_press"}

\* configurations passed to __init__
InitConfigs ==
    { <<>>,
      [oled_sleep_timeout |-> SomeTimeout],
      [oled_sleep_timeout |-> SomeTimeout, oled_enable |-> TRUE] }

\* configurations passed to update_config while the service exists
Configs ==
    { [oled_sleep_timeout |-> SomeTimeout],
      [oled_sleep_timeout |-> 0],
      [oled_enable |-> FALSE],
      [oled_enable |-> TRUE],
      [temperature_unit |-> "F", oled_rotation |-> 180, oled_disk |-> "mmcblk0",
       oled_network_interface |-> "eth0", video_fps |-> 30, hostname |-> "pi"],
      [temperature_unit |-> "K", oled_rotation |-> 90, oled_disk |-> "nvme0n1",
       oled_network_interface |-> "wlan0", oled_sleep_timeout |-> SomeTimeout,
       oled_enable |-> FALSE, video_fps |-> 24] }

VARIABLES
    \* ---- OLEDService fields
    temperature_unit, disk_mode, ip_interface, video_fps,
    sleep_timeout, wake_flag, button, wake_start_time,
    running, current_page,
    cycle_state, cycle_state_start_time, last_cycle_time,
    logo_frame,
    \* ---- the SSD1306 behind self.oled
    ready, rotation, shown,
    \* ---- the worker thread: its position in loop() and loop()'s locals
    pc, current_time, page_index, last_refresh_time, logo_drawn,
    \* ---- the environment: the clock, the thread that calls start() and
    \* ---- stop(), the calls the other threads may still make
    now, lc, budget,
    \* ---- history: the page the worker's latest step presented, what the
    \* ---- button handling of the tick in progress did, whether every tick
    \* ---- since the Logo phase began ran the cycle logic, how the controller
    \* ---- fell asleep, final sequences issued by the latest stop(), how often
    \* ---- the cycle has presented the page of the current phase since this
    \* ---- worker entered it (-1: the phase was not entered by this worker)
    rendered, click, undisturbed, phase_renders, slept_by, finals,
    \* ---- history: a click has woken the controller from the blank panel
    \* ---- and the worker has presented nothing since; the later of the
    \* ---- latest start() and the latest wake() or applied click
    woken, awake_since,
    \* ---- overlapping start() and stop(): self.thread (0 is None), the state
    \* ---- of every Thread object, the position of every calling thread in
    \* ---- start() or stop(), the Thread a stop() is joining
    thread, threads, callers, joinee,
    \* ---- preprocess_video.py: frame.size of the frame being processed, and
    \* ---- <<new_width, new_height, x_offset, y_offset>> once computed
    frame_size, letterbox

fieldVars == <<temperature_unit, disk_mode, ip_interface, video_fps, sleep_timeout>>
cycleVars == <<cycle_state, cycle_state_start_time, last_cycle_time>>
localVars == <<current_time, page_index, last_refresh_time, logo_drawn>>
constVars == <<ready, logo_frame>>
lifeVars == <<thread, threads, callers, joinee>>
frameVars == <<frame_size, letterbox>>
ThreadIds == 1..MaxThreads
CallerIds == 1..NumCallers
\* one more call by another thread, while the run's budget lasts
Call == budget > 0 /\ budget' = budget - 1
vars == <<temperature_unit, disk_mode, ip_interface, video_fps,
          sleep_timeout, wake_flag, button, wake_start_time,
          running, current_page,
          cycle_state, cycle_state_start_time, last_cycle_time,
          logo_frame, ready, rotation, shown,
          pc, current_time, page_index, last_refresh_time, logo_drawn,
          now, lc, budget,
          rendered, click, undisturbed, phase_renders, slept_by, finals,
          woken, awake_since,
          thread, threads, callers, joinee, frame_size, letterbox>>

Has(config, key) == key \in DOMAIN config

\* the later of two times
Later(a, b) == IF a >= b THEN a ELSE b

(***************************************************************************)
(* _load_logo_frame: the first frame of the file, or None.                 *)
(***************************************************************************)
load_logo_frame(a) ==
    IF a.kind = "missing" THEN NOFRAME                 \* no file: warning, return
    ELSE IF a.kind = "malformed" THEN NOFRAME          \* np.load / data['frames'] raises
    ELSE IF Len(a.frames) = 0 THEN NOFRAME             \* frames[0] raises IndexError
    ELSE a.frames[1]

(***************************************************************************)
(* wake() and sleep(), on the record of the fields update_config touches.  *)
(* sleep() clears and presents the blank buffer; a panel that is not ready *)
(* shows nothing new.                                                      *)
(***************************************************************************)
wake(s, t) ==
    [s EXCEPT !.wake_start_time = t, !.wake_flag = TRUE, !.slept_by = "none"]

sleep(s) ==
    [s EXCEPT !.wake_flag = FALSE,
              !.shown = IF s.ready THEN BLANK ELSE s.shown,
              !.slept_by = IF s.wake_flag THEN "call" ELSE s.slept_by]

(***************************************************************************)
(* update_config(config), called at time t.                                *)
(***************************************************************************)
update_config_each(s, config, t) ==
    LET s1 == IF Has(config, "temperature_unit") /\ config.temperature_unit \in {"C", "F"}
              THEN [s EXCEPT !.temperature_unit = config.temperature_unit] ELSE s
        s2 == IF Has(config, "oled_rotation")
              THEN [s1 EXCEPT !.rotation = IF s.ready THEN config.oled_rotation ELSE s.rotation]
              ELSE s1
        s3 == IF Has(config, "oled_disk")
              THEN [s2 EXCEPT !.disk_mode = config.oled_disk] ELSE s2
        s4 == IF Has(config, "oled_network_interface")
              THEN [s3 EXCEPT !.ip_interface = config.oled_network_interface] ELSE s3
        s5 == IF Has(config, "oled_sleep_timeout")
              THEN [s4 EXCEPT !.sleep_timeout = config.oled_sleep_timeout] ELSE s4
        s6 == IF Has(config, "oled_enable")
              THEN (IF config.oled_enable THEN wake(s5, t) ELSE sleep(s5)) ELSE s5
        s7 == IF Has(config, "video_fps")
              THEN [s6 EXCEPT !.video_fps = config.video_fps] ELSE s6
    IN  s7

update_config(s, config, t) ==
    IF Has(config, "temperature_unit") /\ config.temperature_unit \notin {"C", "F"}
    THEN s                                             \* log.error; return
    ELSE update_config_each(s, config, t)

\* the fields update_config reads and writes, as a record
Fields ==
    [temperature_unit |-> temperature_unit, rotation |-> rotation,
     disk_mode |-> disk_mode, ip_interface |-> ip_interface,
     sleep_timeout |-> sleep_timeout, wake_flag |-> wake_flag,
     wake_start_time |-> wake_start_time, video_fps |-> video_fps,
     shown |-> shown, ready |-> ready, slept_by |-> slept_by]

SetFields(s) ==
    /\ temperature_unit' = s.temperature_unit
    /\ rotation' = s.rotation
    /\ disk_mode' = s.disk_mode
    /\ ip_interface' = s.ip_interface
    /\ sleep_timeout' = s.sleep_timeout
    /\ wake_flag' = s.wake_flag
    /\ wake_start_time' = s.wake_start_time
    /\ video_fps' = s.video_fps
    /\ shown' = s.shown
    /\ slept_by' = s.slept_by

(***************************************************************************)
(* __init__(config): the defaults, the logo, then update_config(config).   *)
(***************************************************************************)
Defaults(isReady) ==
    [temperature_unit |-> "C", rotation |-> 0,
     disk_mode |-> "total", ip_interface |-> "all",
     sleep_timeout |-> 0, wake_flag |-> TRUE,
     wake_start_time |-> 0, video_fps |-> "unset",
     shown |-> POWERUP, ready |-> isReady, slept_by |-> "none"]

InitWith(n) ==
    /\ budget = n
    /\ now = Epoch
    /\ ready \in BOOLEAN
    /\ \E a \in Assets : logo_frame = load_logo_frame(a)
    /\ \E config \in InitConfigs :
         LET s == update_config(Defaults(ready), config, now) IN
           /\ temperature_unit = s.temperature_unit
           /\ rotation = s.rotation
           /\ disk_mode = s.disk_mode
           /\ ip_interface = s.ip_interface
           /\ sleep_timeout = s.sleep_timeout
           /\ wake_flag = s.wake_flag
           /\ wake_start_time = s.wake_start_time
           /\ video_fps = s.video_fps
           /\ shown = s.shown
           /\ slept_by = s.slept_by
           /\ awake_since = s.wake_start_time
    /\ button = NOBUTTON
    /\ running = FALSE
    /\ current_page = LOGO
    /\ cycle_state = 0
    /\ cycle_state_start_time = now
    /\ last_cycle_time = now
    /\ pc = "none"
    /\ current_time = 0
    /\ page_index = 0
    /\ last_refresh_time = 0
    /\ logo_drawn = FALSE
    /\ lc = "idle"
    /\ rendered = NOPAGE
    /\ click = "none"
    /\ woken = FALSE
    /\ undisturbed = FALSE
    /\ phase_renders = 0
    /\ finals = 0
    /\ thread = 0
    /\ threads = [w \in ThreadIds |-> "none"]
    /\ callers = [c \in CallerIds |-> "idle"]
    /\ joinee = [c \in CallerIds |-> 0]

(***************************************************************************)
(* The decisions of loop().                                                *)
(***************************************************************************)
\* variant: the hold of a phase is over one poll late
PhaseDue_strict(elapsed, duration) == elapsed > duration

\* "elapsed >= duration": the hold of a phase is over
PhaseDue(elapsed, duration) == elapsed >= duration

\* "time_in_state < 0.1": draw once at the start of Greeting and ServerInfo
AtPhaseStart(elapsed) == elapsed < POLL

\* "current_time - last_refresh_time > INTERVAL"
RefreshDue(elapsed) == elapsed > INTERVAL

\* variant: a timeout of 0 is a timeout like any other
SleepDue_zero(timeout, elapsed) == elapsed > timeout

\* variant: the timeout fires as soon as it is reached
SleepDue_early(timeout, elapsed) == timeout > 0 /\ elapsed >= timeout

\* "self.sleep_timeout > 0 and current_time - self.wake_start_time > self.sleep_timeout"
SleepDue(timeout, elapsed) == timeout > 0 /\ elapsed > timeout

\* variant: the index stops at the last page
NextPageIndex_nowrap(i) == IF i + 1 < Len(info_pages) THEN i + 1 ELSE i

\* "(page_index + 1) % len(info_pages)"
NextPageIndex(i) == (i + 1) % Len(info_pages)

\* info_pages[page_index](self.oled): the page that renderer draws
InfoPage(i) == info_pages[i + 1]

\* variant: the page check looks for the wrong page
IsPowerOff_logo(page) == page = LOGO

\* "self.current_page == OLEDPage.POWER_OFF"
IsPowerOff(page) == page = POWER_OFF

\* variant: no text fallback
LogoPage_nofallback(frame) == IF frame # NOFRAME THEN frame ELSE NOPAGE

\* state 0 of the cycle: draw_logo() when a frame is loaded, else the text
LogoPage(frame) == IF frame # NOFRAME THEN frame ELSE PAGE_TEXT_LOGO

(***************************************************************************)
(* The display cycle of one tick, lines 406-463, on the record             *)
(*   [cycle_state, cycle_state_start_time, last_cycle_time, page_index,    *)
(*    last_refresh_time, logo_drawn, page]                                 *)
(* where page is the page the cycle presents in this tick (at most one);   *)
(* t is current_time.                                                      *)
(***************************************************************************)
CycleLogo(c, t) ==
    LET c1 == IF ~c.logo_drawn
              THEN [c EXCEPT !.page = LogoPage(logo_frame), !.logo_drawn = TRUE]
              ELSE c
    IN  IF PhaseDue(t - c.last_cycle_time, cycle_interval)
        THEN [c1 EXCEPT !.cycle_state = 1, !.cycle_state_start_time = t,
                        !.logo_drawn = FALSE]
        ELSE c1

CycleGreeting(c, t) ==
    LET time_in_state == t - c.cycle_state_start_time
        c1 == IF AtPhaseStart(time_in_state)
              THEN [c EXCEPT !.page = PAGE_GREETING] ELSE c
    IN  IF PhaseDue(time_in_state, greeting_duration)
        THEN [c1 EXCEPT !.cycle_state = 2, !.cycle_state_start_time = t]
        ELSE c1

\* variant: the Info phase starts at whatever index the clicks left
CycleServerInfo_noreset(c, t) ==
    LET time_in_state == t - c.cycle_state_start_time
        c1 == IF AtPhaseStart(time_in_state)
              THEN [c EXCEPT !.page = PAGE_SERVER_INFO] ELSE c
    IN  IF PhaseDue(time_in_state, server_info_duration)
        THEN [c1 EXCEPT !.cycle_state = 3, !.cycle_state_start_time = t]
        ELSE c1

CycleServerInfo(c, t) ==
    LET time_in_state == t - c.cycle_state_start_time
        c1 == IF AtPhaseStart(time_in_state)
              THEN [c EXCEPT !.page = PAGE_SERVER_INFO] ELSE c
    IN  IF PhaseDue(time_in_state, server_info_duration)
        THEN [c1 EXCEPT !.cycle_state = 3, !.cycle_state_start_time = t,
                        !.page_index = 0]
        ELSE c1

\* variant: every refresh moves on to the next info page
CycleInfo_rotating(c, t) ==
    LET time_in_state == t - c.cycle_state_start_time
        c1 == IF RefreshDue(t - c.last_refresh_time)
              THEN [c EXCEPT !.last_refresh_time = t,
                             !.page_index = NextPageIndex(c.page_index),
                             !.page = InfoPage(NextPageIndex(c.page_index))]
              ELSE c
    IN  IF PhaseDue(time_in_state, info_duration)
        THEN [c1 EXCEPT !.cycle_state = 0, !.last_cycle_time = t,
                        !.cycle_state_start_time = t, !.logo_drawn = FALSE]
        ELSE c1

CycleInfo(c, t) ==
    LET time_in_state == t - c.cycle_state_start_time
        c1 == IF RefreshDue(t - c.last_refresh_time)
              THEN [c EXCEPT !.last_refresh_time = t,
                             !.page = InfoPage(c.page_index)]
              ELSE c
    IN  IF PhaseDue(time_in_state, info_duration)
        THEN [c1 EXCEPT !.cycle_state = 0, !.last_cycle_time = t,
                        !.cycle_state_start_time = t, !.logo_drawn = FALSE]
        ELSE c1

CycleLogic(c, t) ==
    CASE c.cycle_state = 0 -> CycleLogo(c, t)
      [] c.cycle_state = 1 -> CycleGreeting(c, t)
      [] c.cycle_state = 2 -> CycleServerInfo(c, t)
      [] c.cycle_state = 3 -> CycleInfo(c, t)

\* variant: the click that wakes also shows the next info page
single_click_always(s) ==
    [s EXCEPT !.wake_flag = TRUE,
              !.page_index = NextPageIndex(s.page_index),
              !.page = InfoPage(NextPageIndex(s.page_index))]

\* lines 384-390: a single click wakes an asleep controller, and shows the
\* next info page of an awake one; on [wake_flag, page_index, page]
single_click(s) ==
    IF ~s.wake_flag
    THEN [s EXCEPT !.wake_flag = TRUE]
    ELSE [s EXCEPT !.page_index = NextPageIndex(s.page_index),
                   !.page = InfoPage(NextPageIndex(s.page_index))]

(***************************************************************************)
(* The worker thread: loop().  A step that presents a page records it in   *)
(* rendered; a step that presents nothing records NOPAGE.                  *)
(***************************************************************************)
\* lines 368-378: the locals, the readiness check, last_cycle_time
LoopBegin ==
    /\ pc = "init"
    /\ page_index' = 0
    /\ last_refresh_time' = 0
    /\ logo_drawn' = FALSE
    /\ rendered' = NOPAGE
    /\ IF ~ready
       THEN /\ pc' = "done"
            /\ UNCHANGED <<last_cycle_time, undisturbed, phase_renders>>
       ELSE /\ pc' = "top"
            /\ last_cycle_time' = now
            /\ undisturbed' = (cycle_state = 0)
            /\ phase_renders' = IF cycle_state = 0 THEN 0 ELSE -1
    /\ UNCHANGED <<fieldVars, wake_flag, button, wake_start_time, running,
                   current_page, cycle_state, cycle_state_start_time,
                   constVars, lifeVars, frameVars, woken, awake_since, rotation, shown, current_time, now, lc, budget,
                   click, slept_by, finals>>

\* variant: every event is handled as a click
IsSingleClick_any(b) == b # NOBUTTON

\* "self.button == 'single_click'"
IsSingleClick(b) == b = "single_click"

\* variant: the loop does not look at the flag
LoopGoesOn_forever(flag) == TRUE

\* "while self.running"
LoopGoesOn(flag) == flag

\* lines 380-390 and the test of line 393 after an event other than a click:
\* the loop condition, the clock, the test of line 384 on self.button and
\* the branch taken.  When line 384 finds an event that is not a click, line
\* 393 finds the slot filled whatever set_button does in between and line
\* 394 empties it, so the two tests are one step; when line 384 finds the
\* slot empty, line 393 reads it again (TickElif).
TickButton ==
    /\ pc = "top"
    /\ IF ~LoopGoesOn(running)
       THEN /\ pc' = "done"
            /\ rendered' = NOPAGE
            /\ UNCHANGED <<current_time, wake_flag, page_index, shown, click,
                           slept_by, woken>>
       ELSE /\ current_time' = now
            /\ IF IsSingleClick(button)
               THEN LET r == single_click([wake_flag |-> wake_flag,
                                           page_index |-> page_index,
                                           page |-> NOPAGE])
                    IN  /\ wake_flag' = r.wake_flag
                        /\ page_index' = r.page_index
                        /\ rendered' = r.page
                        /\ shown' = IF r.page # NOPAGE THEN r.page ELSE shown
                        /\ slept_by' = "none"
                        /\ woken' = (~wake_flag /\ shown = BLANK)
                        /\ click' = IF wake_flag THEN "peek" ELSE "wake"
                        /\ pc' = "clear_click"
               ELSE /\ rendered' = NOPAGE
                    /\ click' = IF button # NOBUTTON THEN "other" ELSE "none"
                    /\ pc' = IF button # NOBUTTON THEN "clear_other" ELSE "elif"
                    /\ UNCHANGED <<wake_flag, page_index, shown, slept_by, woken>>
    /\ UNCHANGED <<fieldVars, button, wake_start_time, running, current_page,
                   cycleVars, constVars, lifeVars, frameVars, awake_since, rotation, last_refresh_time,
                   logo_drawn, now, lc, budget, undisturbed, phase_renders, finals>>

\* line 393, "elif self.button", after line 384 found the slot empty: the
\* second read of the slot takes any event placed since the first, a click
\* included, to line 394
TickElif ==
    /\ pc = "elif"
    /\ rendered' = NOPAGE
    /\ click' = IF button # NOBUTTON THEN "late" ELSE "none"
    /\ pc' = IF button # NOBUTTON THEN "clear_other" ELSE "page"
    /\ UNCHANGED <<fieldVars, wake_flag, button, wake_start_time, running,
                   current_page, cycleVars, constVars, lifeVars, frameVars, woken, awake_since, rotation, shown,
                   localVars, now, lc, budget, undisturbed, phase_renders,
                   slept_by, finals>>

\* lines 391-392 and 394: the slot is emptied
TickClear ==
    /\ pc \in {"clear_click", "clear_other"}
    /\ button' = NOBUTTON
    /\ wake_start_time' = IF pc = "clear_click" THEN current_time ELSE wake_start_time
    /\ awake_since' = IF pc = "clear_click" THEN Later(awake_since, current_time)
                      ELSE awake_since
    /\ rendered' = NOPAGE
    /\ pc' = "page"
    /\ UNCHANGED <<fieldVars, wake_flag, running, current_page, cycleVars,
                   constVars, lifeVars, frameVars, woken, rotation, shown, localVars, now, lc, budget,
                   click, undisturbed, phase_renders, slept_by, finals>>

\* lines 396-404: the power-off page, the asleep controller; d is how long
\* time.sleep(0.1) lasts
TickPage(d) ==
    /\ pc = "page"
    /\ IF IsPowerOff(current_page)
       THEN /\ now + d <= Epoch + Horizon
            /\ shown' = PAGE_POWER_OFF
            /\ rendered' = PAGE_POWER_OFF
            /\ woken' = FALSE
            /\ now' = now + d
            /\ undisturbed' = FALSE
            /\ click' = "none"
            /\ pc' = "top"
       ELSE IF ~wake_flag
       THEN /\ now + d <= Epoch + Horizon
            /\ now' = now + d
            /\ rendered' = NOPAGE
            /\ undisturbed' = FALSE
            /\ click' = "none"
            /\ pc' = "top"
            /\ UNCHANGED <<shown, woken>>
       ELSE /\ pc' = "cycle"
            /\ rendered' = NOPAGE
            /\ UNCHANGED <<shown, now, undisturbed, click, woken>>
    /\ UNCHANGED <<fieldVars, wake_flag, button, wake_start_time, running,
                   current_page, cycleVars, constVars, lifeVars, frameVars, awake_since, rotation, localVars,
                   lc, budget, slept_by, finals, phase_renders>>

\* lines 406-463: the display cycle
TickCycle ==
    /\ pc = "cycle"
    /\ LET c == CycleLogic([cycle_state |-> cycle_state,
                            cycle_state_start_time |-> cycle_state_start_time,
                            last_cycle_time |-> last_cycle_time,
                            page_index |-> page_index,
                            last_refresh_time |-> last_refresh_time,
                            logo_drawn |-> logo_drawn,
                            page |-> NOPAGE], current_time)
       IN  /\ cycle_state' = c.cycle_state
           /\ cycle_state_start_time' = c.cycle_state_start_time
           /\ last_cycle_time' = c.last_cycle_time
           /\ page_index' = c.page_index
           /\ last_refresh_time' = c.last_refresh_time
           /\ logo_drawn' = c.logo_drawn
           /\ rendered' = c.page
           /\ shown' = IF c.page # NOPAGE THEN c.page ELSE shown
           /\ woken' = IF c.page # NOPAGE \/ c.cycle_state # cycle_state
                       THEN FALSE ELSE woken
           /\ undisturbed' = IF cycle_state = 3 /\ c.cycle_state = 0
                             THEN TRUE ELSE undisturbed
           /\ phase_renders' = IF c.cycle_state # cycle_state THEN 0
                               ELSE IF c.page # NOPAGE /\ phase_renders >= 0
                                       /\ cycle_state # 3
                               THEN phase_renders + 1
                               ELSE phase_renders
    /\ pc' = "timeout"
    /\ UNCHANGED <<fieldVars, wake_flag, button, wake_start_time, running,
                   current_page, constVars, lifeVars, frameVars, awake_since, rotation, current_time, now, lc,
                   budget, click, slept_by, finals>>

\* lines 465-470: the sleep timeout, else time.sleep(0.1) lasting d
TickTimeout(d) ==
    /\ pc = "timeout"
    /\ IF SleepDue(sleep_timeout, current_time - wake_start_time)
       THEN \* self.sleep(); continue
            /\ wake_flag' = FALSE
            /\ slept_by' = IF wake_flag THEN "timeout" ELSE slept_by
            /\ shown' = BLANK
            /\ rendered' = BLANK
            /\ woken' = FALSE
            /\ UNCHANGED now
       ELSE \* time.sleep(0.1)
            /\ now + d <= Epoch + Horizon
            /\ now' = now + d
            /\ rendered' = NOPAGE
            /\ UNCHANGED <<wake_flag, slept_by, shown, woken>>
    /\ click' = "none"
    /\ pc' = "top"
    /\ UNCHANGED <<fieldVars, button, wake_start_time, running, current_page,
                   cycleVars, constVars, lifeVars, frameVars, awake_since, rotation, localVars, lc, budget,
                   undisturbed, phase_renders, finals>>

(***************************************************************************)
(* Render faults.  loop() calls the info page renderers (lines 390, 455)   *)
(* and draws the text logo (lines 417-419) with no try around them: an     *)
(* exception raised there leaves the while loop and loop() itself, with    *)
(* the statements after the call not executed and self.running untouched.  *)
(***************************************************************************)
\* line 390 raises: page_index is already advanced, lines 391-392 do not run
TickButtonFault ==
    /\ pc = "top"
    /\ running
    /\ button = "single_click"
    /\ wake_flag
    /\ current_time' = now
    /\ page_index' = NextPageIndex(page_index)
    /\ rendered' = FAULT
    /\ click' = "peek"
    /\ pc' = "done"
    /\ UNCHANGED <<fieldVars, wake_flag, button, wake_start_time, running,
                   current_page, cycleVars, constVars, lifeVars, frameVars, woken, awake_since, rotation, shown,
                   last_refresh_time, logo_drawn, now, lc, budget,
                   undisturbed, phase_renders, slept_by, finals>>

\* lines 417-419 raise before logo_drawn is set, or line 455 raises after
\* last_refresh_time is set
TickCycleFault ==
    /\ pc = "cycle"
    /\ \/ /\ cycle_state = 0
          /\ ~logo_drawn
          /\ logo_frame = NOFRAME
          /\ UNCHANGED last_refresh_time
       \/ /\ cycle_state = 3
          /\ RefreshDue(current_time - last_refresh_time)
          /\ last_refresh_time' = current_time
    /\ rendered' = FAULT
    /\ pc' = "done"
    /\ UNCHANGED <<fieldVars, wake_flag, button, wake_start_time, running,
                   current_page, cycleVars, constVars, lifeVars, frameVars, woken, awake_since, rotation, shown,
                   current_time, page_index, logo_drawn, now, lc, budget,
                   click, undisturbed, phase_renders, slept_by, finals>>

(***************************************************************************)
(* The calling threads.                                                    *)
(***************************************************************************)
\* set_button(button_state)
SetButton(b) ==
    /\ Call
    /\ button' = b
    /\ UNCHANGED <<fieldVars, wake_flag, wake_start_time, running, current_page,
                   cycleVars, constVars, lifeVars, frameVars, woken, awake_since, rotation, shown, pc, localVars, now,
                   lc, rendered, click, undisturbed, phase_renders, slept_by, finals>>

\* update_config(config)
UpdateConfig(config) ==
    /\ Call
    /\ LET s == update_config(Fields, config, now)
       IN  /\ SetFields(s)
           /\ woken' = (woken /\ s.wake_flag)
           /\ awake_since' = Later(awake_since, s.wake_start_time)
    /\ UNCHANGED <<button, running, current_page, cycleVars, constVars, lifeVars, frameVars, pc,
                   localVars, now, lc, rendered, click, undisturbed, phase_renders, finals>>

\* show_shutdown_screen(reason)
ShowShutdown ==
    /\ Call
    /\ current_page' = POWER_OFF
    /\ wake_start_time' = now
    /\ wake_flag' = TRUE
    /\ slept_by' = "none"
    /\ awake_since' = Later(awake_since, now)
    /\ UNCHANGED <<fieldVars, button, running, cycleVars, constVars, lifeVars, frameVars, woken, rotation,
                   shown, pc, localVars, now, lc, rendered, click, undisturbed, phase_renders,
                   finals>>

\* start(): a call while running only warns
Start ==
    /\ Call
    /\ lc = "idle"
    /\ IF running
       THEN UNCHANGED <<running, pc, awake_since>>
       ELSE /\ running' = TRUE
            /\ pc' = "init"
            /\ awake_since' = Later(awake_since, now)
    /\ UNCHANGED <<fieldVars, wake_flag, button, wake_start_time, current_page,
                   cycleVars, constVars, lifeVars, frameVars, woken, rotation, shown, localVars, now, lc,
                   rendered, click, undisturbed, phase_renders, slept_by, finals>>

\* variant: join() does not wait
ThreadJoined_nowait(p) == TRUE

\* self.thread.join() returns: there is no thread, or loop() has returned
ThreadJoined(p) == p \in {"none", "done"}

\* stop(), lines 483-485: the flag is cleared, then the caller joins
StopBegin ==
    /\ Call
    /\ lc = "idle"
    /\ running' = FALSE
    /\ finals' = 0
    /\ lc' = "joining"
    /\ UNCHANGED <<fieldVars, wake_flag, button, wake_start_time, current_page,
                   cycleVars, constVars, lifeVars, frameVars, woken, awake_since, rotation, shown, pc, localVars, now,
                   rendered, click, undisturbed, phase_renders, slept_by>>

\* stop(), lines 485-490: the join returns, then clear, display, off
StopEnd ==
    /\ lc = "joining"
    /\ ThreadJoined(pc)
    /\ IF ready
       THEN /\ shown' = OFF
            /\ finals' = finals + 1
       ELSE UNCHANGED <<shown, finals>>
    /\ lc' = "idle"
    /\ woken' = FALSE
    /\ UNCHANGED <<fieldVars, wake_flag, button, wake_start_time, running,
                   current_page, cycleVars, constVars, lifeVars, frameVars, awake_since, rotation, pc, localVars,
                   now, budget, rendered, click, undisturbed, phase_renders, slept_by>>

(***************************************************************************)
(* start() and stop() called from several threads at once, statement by    *)
(* statement.  A Thread object is "none" (not created), "new" (created),   *)
(* "init" (started, before the while loop of loop()), "loop" or "dead".    *)
(* Of loop() only what decides the life of the worker is kept: the         *)
(* readiness check and the test of self.running at each tick boundary.     *)
(***************************************************************************)
\* what the display part of the service holds; start() and stop() do not
\* touch it before the final sequence
displayVars ==
    <<fieldVars, wake_flag, button, wake_start_time, current_page, cycleVars,
      constVars, rotation, shown, pc, localVars, now, lc, rendered, click,
      undisturbed, phase_renders, slept_by, finals, woken, awake_since>>

\* the Thread is running the while loop of loop()
Looping(w) == threads[w] = "loop"

\* line 474: "if self.running: warn; return"
StartCheck(c) ==
    /\ callers[c] = "idle"
    /\ Call
    /\ callers' = [callers EXCEPT ![c] = IF running THEN "idle" ELSE "start_set"]
    /\ UNCHANGED <<running, thread, threads, joinee, displayVars, frameVars>>

\* line 477: "self.running = True"
StartSet(c) ==
    /\ callers[c] = "start_set"
    /\ running' = TRUE
    /\ callers' = [callers EXCEPT ![c] = "start_create"]
    /\ UNCHANGED <<thread, threads, joinee, budget, displayVars, frameVars>>

\* line 478: "self.thread = threading.Thread(target=self.loop, daemon=True)"
StartCreate(c) ==
    /\ callers[c] = "start_create"
    /\ \E w \in ThreadIds :
         /\ threads[w] = "none"
         /\ \A v \in ThreadIds : v < w => threads[v] # "none"
         /\ threads' = [threads EXCEPT ![w] = "new"]
         /\ thread' = w
    /\ callers' = [callers EXCEPT ![c] = "start_run"]
    /\ UNCHANGED <<running, joinee, budget, displayVars, frameVars>>

\* line 479: "self.thread.start()", on whatever self.thread is by now; a
\* Thread that is already started raises RuntimeError
StartRun(c) ==
    /\ callers[c] = "start_run"
    /\ threads' = IF threads[thread] = "new"
                  THEN [threads EXCEPT ![thread] = "init"]
                  ELSE threads
    /\ callers' = [callers EXCEPT ![c] = "idle"]
    /\ UNCHANGED <<running, thread, joinee, budget, displayVars, frameVars>>

\* lines 373-378: a worker enters loop()
WorkerBegin(w) ==
    /\ threads[w] = "init"
    /\ threads' = [threads EXCEPT ![w] = IF ready THEN "loop" ELSE "dead"]
    /\ UNCHANGED <<running, thread, callers, joinee, budget, displayVars, frameVars>>

\* line 380: "while self.running" fails at a tick boundary
WorkerExit(w) ==
    /\ threads[w] = "loop"
    /\ ~running
    /\ threads' = [threads EXCEPT ![w] = "dead"]
    /\ UNCHANGED <<running, thread, callers, joinee, budget, displayVars, frameVars>>

\* line 483: "self.running = False"
StopClear(c) ==
    /\ callers[c] = "idle"
    /\ Call
    /\ running' = FALSE
    /\ callers' = [callers EXCEPT ![c] = "stop_check"]
    /\ UNCHANGED <<thread, threads, joinee, displayVars, frameVars>>

\* line 484: "if self.thread is not None"
StopCheck(c) ==
    /\ callers[c] = "stop_check"
    /\ callers' = [callers EXCEPT ![c] = IF thread # 0 THEN "stop_join" ELSE "stop_final"]
    /\ UNCHANGED <<running, thread, threads, joinee, budget, displayVars, frameVars>>

\* line 485: "self.thread.join()" picks the Thread to wait for; joining a
\* Thread that is not started raises RuntimeError and stop() is left
StopJoin(c) ==
    /\ callers[c] = "stop_join"
    /\ IF threads[thread] = "new"
       THEN /\ callers' = [callers EXCEPT ![c] = "idle"]
            /\ UNCHANGED joinee
       ELSE /\ callers' = [callers EXCEPT ![c] = "stop_wait"]
            /\ joinee' = [joinee EXCEPT ![c] = thread]
    /\ UNCHANGED <<running, thread, threads, budget, displayVars, frameVars>>

\* line 485: join() returns once that Thread is dead
StopJoined(c) ==
    /\ callers[c] = "stop_wait"
    /\ threads[joinee[c]] = "dead"
    /\ callers' = [callers EXCEPT ![c] = "stop_final"]
    /\ joinee' = [joinee EXCEPT ![c] = 0]
    /\ UNCHANGED <<running, thread, threads, budget, displayVars, frameVars>>

\* lines 486-489: the final sequence; stop() returns
StopFinal(c) ==
    /\ callers[c] = "stop_final"
    /\ callers' = [callers EXCEPT ![c] = "idle"]
    /\ UNCHANGED <<running, thread, threads, joinee, budget, displayVars, frameVars>>

NextLife ==
    \/ \E c \in CallerIds :
         \/ StartCheck(c)
         \/ StartSet(c)
         \/ StartCreate(c)
         \/ StartRun(c)
         \/ StopClear(c)
         \/ StopCheck(c)
         \/ StopJoin(c)
         \/ StopJoined(c)
         \/ StopFinal(c)
    \/ \E w \in ThreadIds :
         \/ WorkerBegin(w)
         \/ WorkerExit(w)

(***************************************************************************)
(* preprocess_video.py, process_frame_for_oled: the letterbox step.  The   *)
(* source computes aspect = original_width / original_height in floating   *)
(* point and truncates with int(); for the sizes of the model the doubles  *)
(* give the same integers as the exact quotients, so "aspect > 2.0" is     *)
(* original_width * OLED_HEIGHT > original_height * OLED_WIDTH,            *)
(* int(OLED_WIDTH / aspect) is the integer quotient of                     *)
(* OLED_WIDTH * original_height by original_width, and                     *)
(* int(OLED_HEIGHT * aspect) that of OLED_HEIGHT * original_width by       *)
(* original_height.                                                        *)
(***************************************************************************)
\* frame.size of the frames the videos may have
FrameSizes == (1..MaxFrameWidth) \X (1..MaxFrameHeight)

\* lines 87-89: "aspect > oled_aspect", the video is wider than the panel
Wider(original_width, original_height) ==
    original_width * OLED_HEIGHT > original_height * OLED_WIDTH

\* lines 89-97: <<new_width, new_height>>
ResizedSize(original_width, original_height) ==
    IF Wider(original_width, original_height)
    THEN <<OLED_WIDTH, (OLED_WIDTH * original_height) \div original_width>>
    ELSE <<(OLED_HEIGHT * original_width) \div original_height, OLED_HEIGHT>>

\* lines 106-107: <<x_offset, y_offset>>; "//" rounds down, as \div does
Offsets(new_width, new_height) ==
    <<(OLED_WIDTH - new_width) \div 2, (OLED_HEIGHT - new_height) \div 2>>

\* lines 86-107, for the frame at hand
process_frame_for_oled ==
    /\ letterbox = <<>>
    /\ LET size == ResizedSize(frame_size[1], frame_size[2])
       IN  letterbox' = size \o Offsets(size[1], size[2])
    /\ UNCHANGED <<displayVars, running, budget, lifeVars, frame_size>>

(***************************************************************************)
(* Specifications.  Spec: a sleep of the worker lasts POLL..MaxStep        *)
(* periods.  SpecSim: the simulated clock, every sleep lasts exactly POLL, *)
(* and the other threads make one more call.                               *)
(***************************************************************************)
Callers ==
    \/ \E b \in ButtonEvents : SetButton(b)
    \/ \E config \in Configs : UpdateConfig(config)
    \/ ShowShutdown
    \/ Start
    \/ StopBegin
    \/ StopEnd

Next ==
    \/ LoopBegin
    \/ TickButton
    \/ TickElif
    \/ TickClear
    \/ \E d \in POLL..MaxStep : TickPage(d)
    \/ TickCycle
    \/ \E d \in POLL..MaxStep : TickTimeout(d)
    \/ Callers

NextSim ==
    \/ LoopBegin
    \/ TickButton
    \/ TickElif
    \/ TickClear
    \/ TickPage(POLL)
    \/ TickCycle
    \/ TickTimeout(POLL)
    \/ Callers

\* Spec with render faults
NextFault ==
    \/ Next
    \/ TickButtonFault
    \/ TickCycleFault

\* no video is being preprocessed
NoFrame == frame_size = <<0, 0>> /\ letterbox = <<>>

Init == InitWith(MaxCalls) /\ NoFrame

InitSim == InitWith(MaxCalls + 1) /\ NoFrame

\* preprocess_video.py is run on a video whose frames have one of the sizes
\* of FrameSizes; the service is constructed and left alone
InitFrame ==
    /\ InitWith(0)
    /\ frame_size \in FrameSizes
    /\ letterbox = <<>>

\* the preprocessing of one frame
SpecFrame == InitFrame /\ [][process_frame_for_oled]_vars

Spec == Init /\ [][Next]_vars

SpecSim == InitSim /\ [][NextSim]_vars

SpecFault == Init /\ [][NextFault]_vars

\* the steps of the worker thread, under the simulated clock
Worker ==
    \/ LoopBegin
    \/ TickButton
    \/ TickElif
    \/ TickClear
    \/ TickPage(POLL)
    \/ TickCycle
    \/ TickTimeout(POLL)

\* fair scheduling under the simulated clock: a thread that can take a step
\* eventually takes one (the worker in loop(), the caller of stop() after
\* its join)
SpecLive == Init /\ [][NextSim]_vars /\ WF_vars(Worker) /\ WF_vars(StopEnd)

\* overlapping calls of start() and stop()
SpecLife == InitSim /\ [][NextLife]_vars

TypeOK ==
    /\ cycle_state \in 0..3
    /\ page_index \in 0..(Len(info_pages) - 1)
    /\ wake_flag \in BOOLEAN
    /\ button \in ButtonEvents \cup {NOBUTTON}
    /\ pc \in {"none", "init", "top", "elif", "clear_click", "clear_other", "page",
               "cycle", "timeout", "done"}
    /\ lc \in {"idle", "joining"}
    /\ now \in Epoch..(Epoch + Horizon)
    /\ budget \in 0..(MaxCalls + 1)

(***************************************************************************)
(* Properties.  A step of the worker is a step that changes pc away from   *)
(* a position of loop(): "top" is the head of the while loop.              *)
(***************************************************************************)
WorkerStepFrom(p) == pc = p /\ pc' # p

CycleSum ==
    cycle_interval + greeting_duration + server_info_duration + info_duration

\* the time since the Logo phase began at which phase k ends
PhaseEnd(k) ==
    CASE k = 0 -> cycle_interval
      [] k = 1 -> cycle_interval + greeting_duration
      [] k = 2 -> cycle_interval + greeting_duration + server_info_duration
      [] k = 3 -> CycleSum

\* C1: under the simulated clock, the phase only steps Logo -> Greeting ->
\* ServerInfo -> Info -> Logo, and when every tick since the Logo phase began
\* ran the display cycle (the controller stayed Awake and unlatched), each
\* phase ends exactly at its place in the cycle: the phase is Logo again
\* once cycle_interval + greeting_duration + server_info_duration +
\* info_duration have elapsed since the Logo phase began.
C1_CycleReturnsToLogo ==
    [][cycle_state' # cycle_state =>
         /\ cycle_state' = (cycle_state + 1) % 4
         /\ undisturbed => current_time - last_cycle_time = PhaseEnd(cycle_state)
      ]_vars

\* a whole cycle has run from the start of the service back to Logo
C1_Witness ==
    /\ cycle_state = 0
    /\ undisturbed
    /\ last_cycle_time = Epoch + CycleSum
    /\ cycle_state_start_time = last_cycle_time

\* what update_config(config) leaves when each recognized field applies on
\* its own: a valid value is stored, an invalid one leaves the field alone
AppliedIndependently(config) ==
    /\ Has(config, "temperature_unit") =>
         temperature_unit' = IF config.temperature_unit \in {"C", "F"}
                             THEN config.temperature_unit ELSE temperature_unit
    /\ Has(config, "oled_rotation") => rotation' = config.oled_rotation
    /\ Has(config, "oled_disk") => disk_mode' = config.oled_disk
    /\ Has(config, "oled_network_interface") =>
         ip_interface' = config.oled_network_interface
    /\ Has(config, "oled_sleep_timeout") =>
         sleep_timeout' = config.oled_sleep_timeout
    /\ Has(config, "oled_enable") => wake_flag' = config.oled_enable
    /\ Has(config, "video_fps") => video_fps' = config.video_fps

\* C2: every update_config call applies each recognized field of the
\* configuration independently of the others: a field with a valid value is
\* stored even when the temperature_unit of the same update is rejected.
C2_FieldsApplyIndependently ==
    [][\A config \in Configs :
         (ready /\ UpdateConfig(config)) => AppliedIndependently(config)]_vars

\* C3: once current_page is POWER_OFF it stays POWER_OFF through every
\* later step, show_shutdown_screen leaves the controller Awake, and every
\* tick that reaches the page check with the latch set presents the
\* PowerOff page and goes back to the head of the loop without running the
\* display cycle.
C3_PowerOffLatched ==
    [][/\ current_page' = POWER_OFF /\ current_page # POWER_OFF => wake_flag'
       /\ current_page = POWER_OFF =>
            /\ current_page' = POWER_OFF
            /\ WorkerStepFrom("page") =>
                 /\ rendered' = PAGE_POWER_OFF
                 /\ shown' = PAGE_POWER_OFF
                 /\ pc' = "top"
                 /\ UNCHANGED cycleVars
      ]_vars

\* a latched controller, put to sleep by a later update_config, has run a
\* tick that presented the PowerOff page
C3_Witness ==
    /\ current_page = POWER_OFF
    /\ ~wake_flag
    /\ pc = "top"
    /\ rendered = PAGE_POWER_OFF
    /\ shown = PAGE_POWER_OFF

\* C4: while the power-off latch is set, the button handling of a tick
\* changes nothing: a SingleClick does not advance the info page index and
\* presents no info page, and the cycle phase and its timers do not change.
C4_NothingElseWhileLatched ==
    [][(current_page = POWER_OFF /\ WorkerStepFrom("top")) =>
         /\ page_index' = page_index
         /\ rendered' = NOPAGE
         /\ UNCHANGED cycleVars
      ]_vars

\* C5: a SingleClick consumed while Awake advances the info page index by
\* one modulo the number of info pages and presents that page in the same
\* step, leaves the cycle phase and its timers alone, and the emptying of
\* the slot that follows resets wake_start_time to the tick's clock.
C5_AwakeClickPeeks ==
    [][/\ (WorkerStepFrom("top") /\ running /\ button = "single_click" /\ wake_flag) =>
            /\ page_index' = (page_index + 1) % Len(info_pages)
            /\ rendered' = info_pages[page_index' + 1]
            /\ shown' = rendered'
            /\ wake_flag'
            /\ pc' = "clear_click"
            /\ UNCHANGED cycleVars
       /\ (WorkerStepFrom("clear_click") /\ click = "peek") =>
            /\ button' = NOBUTTON
            /\ wake_start_time' = current_time
            /\ pc' = "page"
            /\ UNCHANGED <<cycleVars, page_index, shown>>
      ]_vars

\* the third click of a run wraps the index back to the first page, in the
\* Logo phase, after the clock has moved on
C5_Witness ==
    /\ click = "peek"
    /\ pc = "page"
    /\ page_index = 0
    /\ shown = info_pages[1]
    /\ wake_start_time = current_time
    /\ current_time > Epoch
    /\ cycle_state = 0

\* C6 as stated: in the tick that consumes a SingleClick while Asleep the
\* info page index is not advanced, the cycle phase does not change and no
\* page is presented, up to the end of the tick.
C6_NoPageChangeInWakeTick ==
    [][click = "wake" =>
         /\ page_index' = page_index
         /\ cycle_state' = cycle_state
         /\ rendered' = NOPAGE
      ]_vars

\* C6: the handling of a SingleClick consumed while Asleep sets the
\* controller Awake without advancing the info page index, presenting a
\* page or touching the cycle phase and its timers, and the emptying of the
\* slot that follows clears the event and resets wake_start_time to the
\* tick's clock; what the rest of the tick does is what any Awake tick does.
C6_AsleepClickWakes ==
    [][/\ (WorkerStepFrom("top") /\ running /\ button = "single_click" /\ ~wake_flag) =>
            /\ wake_flag'
            /\ page_index' = page_index
            /\ rendered' = NOPAGE
            /\ shown' = shown
            /\ pc' = "clear_click"
            /\ UNCHANGED cycleVars
       /\ (WorkerStepFrom("clear_click") /\ click = "wake") =>
            /\ button' = NOBUTTON
            /\ wake_start_time' = current_time
            /\ pc' = "page"
            /\ UNCHANGED <<cycleVars, page_index, shown>>
      ]_vars

\* the click has woken a controller that was asleep showing the blank
\* panel, and the slot has been emptied
C6_Witness ==
    /\ click = "wake"
    /\ pc = "page"
    /\ wake_flag
    /\ button = NOBUTTON
    /\ wake_start_time = current_time
    /\ shown = BLANK

\* C7 as stated: with sleep_timeout 0 an Awake controller whose worker is
\* running its loop never becomes Asleep.
C7_NeverAsleepAtAll ==
    [][(running /\ ready /\ pc = "top" /\ sleep_timeout = 0 /\ wake_flag) =>
         wake_flag']_vars

\* C7: with sleep_timeout 0 no step of the worker puts an Awake controller
\* to sleep, however long ago wake_start_time is; the only steps that do are
\* calls of sleep(), which update_config makes for oled_enable false.
C7_NoTimeoutSleepAtZero ==
    [][(sleep_timeout = 0 /\ wake_flag /\ ~wake_flag') =>
         (pc' = pc /\ slept_by' = "call")]_vars

\* the worker has run the timeout check with sleep_timeout 0 and more than
\* SomeTimeout elapsed since wake_start_time, and the controller is Awake
C7_Witness ==
    /\ running
    /\ pc = "top"
    /\ wake_flag
    /\ sleep_timeout = 0
    /\ current_time - wake_start_time > SomeTimeout
    /\ now > current_time
    /\ cycle_state = 1

\* a step of the worker thread
WorkerStep ==
    /\ pc \in {"init", "top", "elif", "clear_click", "clear_other", "page", "cycle", "timeout"}
    /\ pc' # pc

\* C8: the timeout check of a tick puts the controller to sleep, presenting
\* the blank buffer, exactly when sleep_timeout > 0 and the tick's clock is
\* more than sleep_timeout past wake_start_time; and while the controller
\* stays asleep from that timeout, no step of the worker presents anything.
C8_SleepTimeout ==
    [][/\ WorkerStepFrom("timeout") =>
            IF sleep_timeout > 0 /\ current_time - wake_start_time > sleep_timeout
            THEN /\ ~wake_flag'
                 /\ rendered' = BLANK
                 /\ shown' = BLANK
            ELSE /\ wake_flag' = wake_flag
                 /\ rendered' = NOPAGE
                 /\ shown' = shown
       /\ (slept_by = "timeout" /\ ~wake_flag /\ ~wake_flag' /\ WorkerStep) =>
            /\ rendered' = NOPAGE
            /\ shown' = shown
      ]_vars

\* asleep from the timeout, the worker has gone through a whole tick and
\* the panel is still blank
C8_Witness ==
    /\ slept_by = "timeout"
    /\ ~wake_flag
    /\ sleep_timeout > 0
    /\ pc = "top"
    /\ rendered = NOPAGE
    /\ shown = BLANK
    /\ now > current_time
    /\ current_time - wake_start_time > sleep_timeout

\* C9 as stated: stop() returns only once the worker has terminated, and
\* exactly one final clear, present and power-down sequence has executed,
\* whether the renderer is ready or not.
C9_AlwaysOneFinalSequence ==
    [][(lc = "joining" /\ lc' = "idle") =>
         /\ pc \in {"none", "done"}
         /\ finals' = 1
         /\ shown' = OFF
      ]_vars

\* C9: stop() returns only once the flag is cleared and the worker, when
\* there is one, has left loop(); with a ready renderer exactly one final
\* clear, present and power-down sequence has then executed, after every
\* render of the worker, and with a renderer that is not ready none has.
C9_StopJoinsThenFinalSequence ==
    [][(lc = "joining" /\ lc' = "idle") =>
         /\ ~running
         /\ pc \in {"none", "done"}
         /\ pc' = pc
         /\ IF ready
            THEN finals' = 1 /\ shown' = OFF
            ELSE finals' = 0 /\ shown' = shown
      ]_vars

\* a worker that has drawn the logo has been stopped: the panel is off
C9_Witness ==
    /\ lc = "idle"
    /\ ~running
    /\ pc = "done"
    /\ logo_drawn
    /\ finals = 1
    /\ shown = OFF

C11_UnreadyWorkerKeepsPolling ==
    [][(WorkerStep /\ pc' = "done") => ~running]_vars

\* C12: a fault raised by a render call of a tick does not terminate the
\* worker: the loop goes on to the next tick with the same cycle phase and
\* Awake flag.
C12_RenderFaultCaught ==
    [][(WorkerStep /\ rendered' = FAULT) =>
         /\ pc' # "done"
         /\ cycle_state' = cycle_state
         /\ wake_flag' = wake_flag
      ]_vars

\* C13 as stated: the transition Info -> Logo sets last_cycle_time to the
\* tick's clock and resets the info page index to 0.
C13_ReturnToLogoResetsIndex ==
    [][(cycle_state = 3 /\ cycle_state' = 0) =>
         /\ last_cycle_time' = current_time
         /\ page_index' = 0
      ]_vars

\* C13: the transition Info -> Logo sets last_cycle_time and
\* cycle_state_start_time to the tick's clock and leaves the info page index
\* as it is; the index is reset to 0 by the transition ServerInfo -> Info,
\* so that every Info phase begins at index 0.
C13_IndexResetOnEnteringInfo ==
    [][/\ (cycle_state = 3 /\ cycle_state' = 0) =>
            /\ last_cycle_time' = current_time
            /\ cycle_state_start_time' = current_time
            /\ page_index' = page_index
       /\ (cycle_state = 2 /\ cycle_state' = 3) =>
            /\ page_index' = 0
            /\ cycle_state_start_time' = current_time
            /\ last_cycle_time' = last_cycle_time
      ]_vars

\* back in Logo after an Info phase in which a click moved the index
C13_Witness ==
    /\ cycle_state = 0
    /\ pc = "timeout"
    /\ last_cycle_time = current_time
    /\ cycle_state_start_time = current_time
    /\ current_time > Epoch
    /\ page_index # 0

\* C14: each entry into the Logo, Greeting or ServerInfo phase causes
\* exactly one render of that phase's page by the display cycle: never more
\* than one while the phase lasts, and one by the time the phase is left.
C14_OneRenderPerPhaseEntry ==
    [][(WorkerStepFrom("cycle") /\ cycle_state \in {0, 1, 2} /\ phase_renders >= 0) =>
         LET n == phase_renders + (IF rendered' # NOPAGE THEN 1 ELSE 0) IN
           /\ n <= 1
           /\ cycle_state' # cycle_state => n = 1
      ]_vars

\* the worker is inside the while loop of loop()
WorkerInLoop ==
    pc \in {"top", "elif", "clear_click", "clear_other", "page", "cycle", "timeout"}

\* C15: while the worker is in its loop, every renderer call and every
\* change of the wake flag, of wake_start_time and of the current page is
\* made by a step of the worker, never by a calling thread.
C15_WorkerIsTheOnlyWriter ==
    [][(/\ WorkerInLoop
        /\ \/ shown' # shown
           \/ wake_flag' # wake_flag
           \/ wake_start_time' # wake_start_time
           \/ current_page' # current_page) => WorkerStep]_vars

\* C16: whatever start() and stop() calls are made, overlapping or not, at
\* most one worker loop is alive.
C16_AtMostOneWorker ==
    Cardinality({w \in ThreadIds : Looping(w)}) <= 1

\* C17: under fair scheduling every stop() returns: whatever the worker is
\* doing when the run flag is cleared, it reaches the head of the loop,
\* sees the flag and leaves loop(), and the join returns.  (The clock of
\* the model stops at Epoch + Horizon, so the sleep that ends the tick in
\* progress has to begin before that.)
C17_StopTerminates ==
    (lc = "joining" /\ now < Epoch + Horizon) ~> (lc = "idle" /\ pc \in {"none", "done"})

\* a worker that had blanked the panel on the sleep timeout has been stopped
C17_Witness ==
    /\ lc = "idle"
    /\ ~running
    /\ pc = "done"
    /\ slept_by = "timeout"
    /\ ~wake_flag
    /\ finals = 1

C19_IndexInRange ==
    [][/\ page_index \in 0..(Len(info_pages) - 1)
       /\ page_index' \in 0..(Len(info_pages) - 1)
       /\ page_index' # page_index =>
            \/ /\ WorkerStepFrom("top")
               /\ button = "single_click"
               /\ wake_flag
               /\ page_index' = (page_index + 1) % Len(info_pages)
            \/ /\ WorkerStepFrom("cycle")
               /\ cycle_state = 2
               /\ cycle_state' = 3
               /\ page_index' = 0
            \/ /\ WorkerStepFrom("init")
               /\ page_index' = 0
       /\ (WorkerStepFrom("cycle") /\ cycle_state = 3) =>
            /\ page_index' = page_index
            /\ IF current_time - last_refresh_time > INTERVAL
               THEN /\ rendered' = info_pages[page_index + 1]
                    /\ shown' = rendered'
                    /\ last_refresh_time' = current_time
               ELSE /\ rendered' = NOPAGE
                    /\ shown' = shown
                    /\ last_refresh_time' = last_refresh_time
      ]_vars

\* in the Info phase, after a click moved the index, the refresh has
\* presented the page at that index a second time
C19_Witness ==
    /\ cycle_state = 3
    /\ pc = "timeout"
    /\ page_index # 0
    /\ rendered = info_pages[page_index + 1]
    /\ last_refresh_time = current_time
    /\ current_time - cycle_state_start_time > INTERVAL

\* the hold condition of phase k, at the clock of the tick
HoldMet(k) ==
    CASE k = 0 -> current_time - last_cycle_time >= cycle_interval
      [] k = 1 -> current_time - cycle_state_start_time >= greeting_duration
      [] k = 2 -> current_time - cycle_state_start_time >= server_info_duration
      [] k = 3 -> current_time - cycle_state_start_time >= info_duration

\* C20: the phase changes only while the controller is Awake and not
\* latched, by one step and when the hold condition of the phase is met, and
\* while it is Asleep or latched the phase and its timers do not change (the
\* start of a worker, which sets last_cycle_time before the first tick, is
\* initialisation and is left out).
C20_PhaseHeldWhileAsleepOrLatched ==
    [][/\ cycle_state' # cycle_state =>
            /\ wake_flag
            /\ current_page # POWER_OFF
            /\ cycle_state' = (cycle_state + 1) % 4
            /\ HoldMet(cycle_state)
       /\ ((~wake_flag \/ current_page = POWER_OFF) /\ ~WorkerStepFrom("init")) =>
            UNCHANGED cycleVars
      ]_vars

\* What the loop does keep: the phase changes only in the display cycle of
\* a tick whose checks found the controller not latched and Awake, by one
\* step and with the hold condition met, and a tick whose checks find it
\* latched or Asleep goes back to the head of the loop with the phase and
\* its timers unchanged.
PhaseChangesOnlyInCycle ==
    [][/\ cycle_state' # cycle_state =>
            /\ WorkerStepFrom("cycle")
            /\ cycle_state' = (cycle_state + 1) % 4
            /\ HoldMet(cycle_state)
       /\ (WorkerStepFrom("page") /\ (current_page = POWER_OFF \/ ~wake_flag)) =>
            /\ pc' = "top"
            /\ UNCHANGED cycleVars
       /\ cycleVars' # cycleVars =>
            \/ WorkerStepFrom("cycle")
            \/ /\ WorkerStepFrom("init")
               /\ last_cycle_time' = now
               /\ UNCHANGED <<cycle_state, cycle_state_start_time>>
      ]_vars

\* C21: a click leaves the slot only by being applied by the tick that
\* empties the slot, or by collapsing with another event: overwritten by a
\* later event, or emptied together with a click or another event that the
\* tick found in the slot and is processing; a tick applies a click once
\* and then empties the slot.
C21_ClickLostOnlyByCollapse ==
    [][/\ (button = "single_click" /\ button' # "single_click") =>
            \/ button' \in ButtonEvents
            \/ WorkerStepFrom("clear_click")
            \/ WorkerStepFrom("clear_other") /\ click = "other"
       /\ (WorkerStepFrom("top") /\ click' \in {"peek", "wake"}) =>
            pc' = "clear_click"
       /\ WorkerStepFrom("clear_click") =>
            /\ button' = NOBUTTON
            /\ pc' = "page"
      ]_vars

\* C22: a controller that a click has woken from the blank panel presents
\* a page again before the phase changes in a later tick (a phase change in
\* the tick of the wake itself is let through).
C22_RenderedAgainAfterClickWake ==
    [][(cycle_state' # cycle_state /\ woken) => click = "wake"]_vars

\* C23: the sleep timeout puts the controller to sleep no earlier than
\* sleep_timeout after the later of start() and the latest wake or click.
C23_NoTimeoutSleepBeforeTimeout ==
    [][(WorkerStepFrom("timeout") /\ wake_flag /\ ~wake_flag') =>
         current_time - awake_since >= sleep_timeout]_vars

\* C24: once another thread has put the controller to sleep, and while it
\* is asleep and not latched, no step of the worker presents a page.
C24_NoRenderAfterSleepCall ==
    [][(/\ WorkerStep
        /\ slept_by = "call"
        /\ ~wake_flag
        /\ ~wake_flag'
        /\ current_page # POWER_OFF) => rendered' \in {NOPAGE, BLANK}]_vars

\* C25: the resized size is at least 1 and at most the panel in both
\* dimensions, one of the two is the panel's, the offsets are not negative,
\* and the picture lies inside the panel.
C25_LetterboxInsidePanel ==
    letterbox # <<>> =>
        /\ 1 <= letterbox[1] /\ letterbox[1] <= OLED_WIDTH
        /\ 1 <= letterbox[2] /\ letterbox[2] <= OLED_HEIGHT
        /\ letterbox[1] = OLED_WIDTH \/ letterbox[2] = OLED_HEIGHT
        /\ letterbox[3] >= 0 /\ letterbox[3] + letterbox[1] <= OLED_WIDTH
        /\ letterbox[4] >= 0 /\ letterbox[4] + letterbox[2] <= OLED_HEIGHT

\* What the letterbox step does keep: everything above but the lower
\* bound, which is 0.
LetterboxNotOutsidePanel ==
    letterbox # <<>> =>
        /\ 0 <= letterbox[1] /\ letterbox[1] <= OLED_WIDTH
        /\ 0 <= letterbox[2] /\ letterbox[2] <= OLED_HEIGHT
        /\ letterbox[1] = OLED_WIDTH \/ letterbox[2] = OLED_HEIGHT
        /\ letterbox[3] >= 0 /\ letterbox[3] + letterbox[1] <= OLED_WIDTH
        /\ letterbox[4] >= 0 /\ letterbox[4] + letterbox[2] <= OLED_HEIGHT

====
